---- MODULE Spec2Model ----
(***************************************************************************)
(* calibre-rest: the calibredb command-line wrapper (CalibreWrapper).      *)
(*                                                                         *)
(* Four specifications share this module:                                  *)
(*   Spec      concurrent callers sharing one wrapper (mutex, _run)        *)
(*   SpecSeq   one caller, every operation with every input                *)
(*   SpecAdd   _run_add's classification of the add subcommand's output    *)
(*   SpecFlags the command builders _handle_add_flags/_handle_update_flags *)
(*                                                                         *)
(* Text is a sequence of pieces: a piece is one character, or a fixed      *)
(* phrase of the tool's output kept as one piece.                          *)
(***************************************************************************)
EXTENDS Integers, Sequences, FiniteSets, TLC

\* ------------------------------------------------------------------ bounds
NThreads == 2
MaxTail == 4
MaxPopulated == 3

Threads == 1..NThreads

\* ------------------------------------------------------------ text helpers
Digits == {"7", "8"}

RECURSIVE SpanOf(_, _)
\* the longest prefix of s made of pieces of class cls (a greedy [cls]* )
SpanOf(s, cls) ==
    IF s = << >> \/ Head(s) \notin cls THEN << >>
    ELSE <<Head(s)>> \o SpanOf(Tail(s), cls)

RECURSIVE str_split(_, _)
\* str.split(sep) for a two-piece separator
str_split(s, sep) ==
    IF Len(s) < 2 THEN <<s>>
    ELSE LET hit == {i \in 1..(Len(s) - 1) : s[i] = sep[1] /\ s[i + 1] = sep[2]}
         IN  IF hit = {} THEN <<s>>
             ELSE LET i == CHOOSE j \in hit : \A k \in hit : j <= k
                  IN  <<SubSeq(s, 1, i - 1)>> \o str_split(SubSeq(s, i + 2, Len(s)), sep)

\* ------------------------------------------------------- class attributes
AddedHdr == "Added book ids: "
MergedHdr == "Merged book ids: "
IgnoredHdr == "The following books were not added as they already exist"
AnotherHdr == "Another calibre program"
RunningHdr == "is running."

\* re.search(CONCURRENCY_ERR_REGEX, s): ^Another calibre program.*is running.
CONCURRENCY_ERR_REGEX(s) ==
    /\ Len(s) >= 2
    /\ s[1] = AnotherHdr
    /\ \E i \in 2..Len(s) : s[i] = RunningHdr

\* re.search(BOOK_ADDED_REGEX, s): ^Added book ids: ([0-9,]+); the group or << >>
BOOK_ADDED_REGEX(s) ==
    IF Len(s) >= 1 /\ s[1] = AddedHdr
    THEN SpanOf(Tail(s), Digits \cup {","})
    ELSE << >>

\* re.search(BOOK_MERGED_REGEX, s): ^Merged book ids: ([0-9, ]+); the group or << >>
BOOK_MERGED_REGEX(s) ==
    IF Len(s) >= 1 /\ s[1] = MergedHdr
    THEN SpanOf(Tail(s), Digits \cup {",", " "})
    ELSE << >>

\* re.search(BOOK_IGNORED_REGEX, s): ^The following books were not added ...
BOOK_IGNORED_REGEX(s) == Len(s) >= 1 /\ s[1] = IgnoredHdr

\* re.search(CALIBRE_VERSION_REGEX, s): calibre ([\d.]+), anywhere in s
CALIBRE_VERSION_REGEX(s) ==
    \E i \in 1..(Len(s) - 1) : s[i] = "calibre " /\ s[i + 1] \in Digits \cup {"."}

\* json.loads(out) for the list subcommand: "ok" with the number of records
json_loads(out) ==
    IF /\ Len(out) >= 2
       /\ out[1] = "[" /\ out[Len(out)] = "]"
       /\ \A i \in 2..(Len(out) - 1) : out[i] = "{}"
    THEN [ok |-> TRUE, n |-> Len(out) - 2]
    ELSE [ok |-> FALSE, n |-> 0]

\* ------------------------------------------------------------ _run_add
NoIds == << >>

\* classify_add as it would be with the stdout patterns tried before the stderr one
classify_add_StdoutFirst(out, stderr) ==
    IF BOOK_MERGED_REGEX(out) # << >>
    THEN [kind |-> "return", ids |-> str_split(BOOK_MERGED_REGEX(out), <<",", " ">>)]
    ELSE IF BOOK_ADDED_REGEX(out) # << >>
    THEN [kind |-> "return", ids |-> str_split(BOOK_ADDED_REGEX(out), <<",", " ">>)]
    ELSE IF BOOK_IGNORED_REGEX(stderr)
    THEN [kind |-> "ExistingItemError", ids |-> NoIds]
    ELSE [kind |-> "Exception", ids |-> NoIds]

\* the part of _run_add after _run returned (out, stderr)
classify_add(out, stderr) ==
    IF BOOK_IGNORED_REGEX(stderr)
    THEN [kind |-> "ExistingItemError", ids |-> NoIds]
    ELSE IF BOOK_MERGED_REGEX(out) # << >>
    THEN LET book_ids == str_split(BOOK_MERGED_REGEX(out), <<",", " ">>)
         IN  IF Len(book_ids) < 1
             THEN [kind |-> "Exception", ids |-> NoIds]
             ELSE [kind |-> "return", ids |-> book_ids]
    ELSE IF BOOK_ADDED_REGEX(out) # << >>
    THEN LET book_ids == str_split(BOOK_ADDED_REGEX(out), <<",", " ">>)
         IN  IF Len(book_ids) < 1
             THEN [kind |-> "Exception", ids |-> NoIds]
             ELSE [kind |-> "return", ids |-> book_ids]
    ELSE [kind |-> "Exception", ids |-> NoIds]

\* ------------------------------------------------------------ operations
MaxId == 1
MaxRemove == 2

Ids == (0 - MaxId)..MaxId
IdLists == UNION {[1..n -> Ids] : n \in 1..MaxRemove}
OpNames == {"version", "get_book", "get_books", "add_one", "add_one_empty", "remove",
            "add_format", "remove_format", "show_metadata", "set_metadata"}

\* one call of a public method: the method and the arguments its control flow reads
\* (id = the id argument, or limit for get_books; ids = remove's list; exists =
\* path.exists(book_path) for add_one; book = a Book was passed; mpath = the
\* metadata_path argument: none, a missing file, a file)
MkCall(name, id, ids, book, mpath, exists) ==
    [name |-> name, id |-> id, ids |-> ids, book |-> book, mpath |-> mpath,
     exists |-> exists]

NoCall == MkCall("none", 1, << >>, FALSE, "none", TRUE)

AllCalls ==
    {MkCall(n, 1, << >>, FALSE, "none", TRUE) : n \in {"version", "add_one_empty"}}
    \cup {MkCall(n, i, << >>, FALSE, "none", TRUE) :
            n \in {"get_book", "get_books", "add_format", "remove_format",
                   "show_metadata"}, i \in Ids}
    \cup {MkCall("add_one", 1, << >>, FALSE, "none", e) : e \in BOOLEAN}
    \cup {MkCall("remove", 1, l, FALSE, "none", TRUE) : l \in IdLists}
    \cup {MkCall("set_metadata", i, << >>, b, m, TRUE) :
            i \in Ids, b \in BOOLEAN, m \in {"none", "missing", "file"}}

\* the calls concurrent callers make: a query, an add, a remove, set_metadata
\* with and without a record, and one rejected input
ConcCalls ==
    {c \in AllCalls :
        /\ c.name \in {"get_book", "add_one_empty", "remove", "set_metadata"}
        /\ c.id = 1 \/ (c.name = "get_book" /\ c.id = 0)
        /\ c.name = "remove" => c.ids = <<1>>
        /\ c.mpath = "none"}

validate_id(id) == IF id <= 0 THEN "ValueError" ELSE "ok"

\* remove's check: not all(i >= 0 for i in ids)
remove_check(ids) ==
    IF \A k \in 1..Len(ids) : ids[k] >= 0 THEN "ok" ELSE "ValueError"

\* what each method checks before it builds its first command
Precheck(c) ==
    CASE c.name \in {"get_book", "add_format", "remove_format", "show_metadata",
                     "set_metadata"} -> validate_id(c.id)
      [] c.name = "get_books" -> IF c.id <= 0 THEN "ValueError" ELSE "ok"
      [] c.name = "add_one" -> IF c.exists THEN "ok" ELSE "FileNotFoundError"
      [] c.name = "remove" -> remove_check(c.ids)
      [] OTHER -> "ok"

\* the calibredb subcommand of the k-th _run of a call
Subcommand(c, k) ==
    CASE c.name \in {"get_book", "get_books"} -> "list"
      [] c.name \in {"add_one", "add_one_empty"} -> "add"
      [] c.name = "set_metadata" -> IF k = 1 THEN "list" ELSE "set_metadata"
      [] OTHER -> c.name

\* ---------------------------------------------------- the external process
NoProc == [exit |-> "none", out |-> << >>, err |-> << >>]

\* what calibredb may print on stdout for a subcommand
Outputs(sub) ==
    CASE sub = "list" -> {<<"[", "]">>, <<"[", "{}", "]">>, <<"[", "{}", "{}", "]">>, <<"x">>}
      [] sub = "add" -> {<<AddedHdr, "7">>, <<MergedHdr, "7", ",", " ", "8">>, << >>}
      [] sub = "version" -> {<<"calibredb (", "calibre ", "7", ")">>, << >>}
      [] OTHER -> {<< >>}

\* what calibredb may print on stderr
Errors(sub, exit) ==
    IF exit = "nonzero" THEN {<<AnotherHdr, " ", RunningHdr>>, <<"error">>}
    ELSE {<< >>, <<"warning">>, <<AnotherHdr, " ", RunningHdr>>}
         \cup (IF sub = "add" THEN {<<IgnoredHdr>>} ELSE {})

\* run_result as it would be without the test of stderr for a running calibre
run_result_NoConcurrency(p) ==
    IF p.exit = "enoent" THEN "FileNotFoundError"
    ELSE IF p.exit = "nonzero" THEN "CalibreRuntimeError"
    ELSE "ok"

\* the exception _run raises for a finished process, or "ok"
run_result(p) ==
    IF p.exit = "enoent" THEN "FileNotFoundError"
    ELSE IF p.exit = "nonzero"
    THEN IF CONCURRENCY_ERR_REGEX(p.err) THEN "CalibreConcurrencyError"
         ELSE "CalibreRuntimeError"
    ELSE "ok"

Result(kind) == [kind |-> kind, ids |-> NoIds]
Pending == Result("pending")

\* get_book_value as it would be without the test len(b) == 1
get_book_value_AnyList(out) == IF json_loads(out).ok THEN "Book" ELSE "None"

\* get_book after _run: a Book when the list holds exactly one record
get_book_value(out) ==
    IF json_loads(out).ok /\ json_loads(out).n = 1 THEN "Book" ELSE "None"

\* the rest of a method after its k-th _run finished with process p:
\* more = it goes on to another _run, else result is what the caller gets
After(c, k, p) ==
    IF run_result(p) # "ok" THEN [more |-> FALSE, result |-> Result(run_result(p))]
    ELSE CASE c.name = "get_book" ->
                [more |-> FALSE, result |-> Result("return " \o get_book_value(p.out))]
           [] c.name = "get_books" ->
                [more |-> FALSE,
                 result |-> IF json_loads(p.out).ok THEN Result("return")
                            ELSE Result("JSONDecodeError")]
           [] c.name = "version" ->
                [more |-> FALSE,
                 result |-> IF CALIBRE_VERSION_REGEX(p.out) THEN Result("return")
                            ELSE Result("return None")]
           [] c.name \in {"add_one", "add_one_empty"} ->
                [more |-> FALSE, result |-> classify_add(p.out, p.err)]
           [] c.name = "set_metadata" /\ k = 1 ->
                IF get_book_value(p.out) = "None"
                THEN [more |-> FALSE, result |-> Result("return -1")]
                ELSE IF c.mpath # "none"
                THEN IF c.mpath = "missing"
                     THEN [more |-> FALSE, result |-> Result("FileNotFoundError")]
                     ELSE [more |-> TRUE, result |-> Pending]
                ELSE IF c.book THEN [more |-> TRUE, result |-> Pending]
                ELSE [more |-> FALSE, result |-> Result("ValueError")]
           [] OTHER -> [more |-> FALSE, result |-> Result("return")]

\* ------------------------------------------------------------------ state
VARIABLES
    mutex,      \* self.mutex: 0 when free, else the thread that acquired it
    pc,         \* where each thread is: idle, acquire, locked, running, finally, done
    call,       \* the call each thread is in
    nrun,       \* subprocess.run calls the current call has made
    proc,       \* the finished process of the current _run (exit, stdout, stderr)
    result,     \* what the call returned or raised
    foreign,    \* another caller's process started since this call's last one
    split,      \* this call started a process after another caller's came between
    add_out, add_err, added,     \* SpecAdd: calibredb add's output, _run_add's outcome
    book, addcmd, updcmd,   \* SpecFlags: a record and the two built commands
    automerge               \* SpecAdd: _run_add's automerge argument

vars == <<mutex, pc, call, nrun, proc, result, foreign, split,
          add_out, add_err, added, book, addcmd, updcmd, automerge>>
pureVars == <<add_out, add_err, added, book, addcmd, updcmd, automerge>>

InitThreads ==
    /\ mutex = 0
    /\ pc = [t \in Threads |-> "idle"]
    /\ call = [t \in Threads |-> NoCall]
    /\ nrun = [t \in Threads |-> 0]
    /\ proc = [t \in Threads |-> NoProc]
    /\ result = [t \in Threads |-> Pending]
    /\ foreign = [t \in Threads |-> FALSE]
    /\ split = [t \in Threads |-> FALSE]

InitPure ==
    /\ add_out = << >> /\ add_err = << >> /\ added = Pending
    /\ book = << >> /\ addcmd = << >> /\ updcmd = << >>
    /\ automerge = "ignore"

Init == InitThreads /\ InitPure

\* a caller enters method c.name: the checks up to the first _run
Invoke(t, c) ==
    /\ pc[t] = "idle"
    /\ call' = [call EXCEPT ![t] = c]
    /\ nrun' = [nrun EXCEPT ![t] = 0]
    /\ foreign' = [foreign EXCEPT ![t] = FALSE]
    /\ split' = [split EXCEPT ![t] = FALSE]
    /\ IF Precheck(c) # "ok"
       THEN /\ pc' = [pc EXCEPT ![t] = "done"]
            /\ result' = [result EXCEPT ![t] = Result(Precheck(c))]
       ELSE /\ pc' = [pc EXCEPT ![t] = "acquire"]
            /\ result' = [result EXCEPT ![t] = Pending]
    /\ UNCHANGED <<mutex, proc, pureVars>>

\* Acquire as it would be with an acquire that does not block
Acquire_NoBlock(t) ==
    /\ pc[t] = "acquire"
    /\ mutex' = t
    /\ pc' = [pc EXCEPT ![t] = "locked"]
    /\ UNCHANGED <<call, nrun, proc, result, foreign, split, pureVars>>

\* _run: self.mutex.acquire()
Acquire(t) ==
    /\ pc[t] = "acquire"
    /\ mutex = 0
    /\ mutex' = t
    /\ pc' = [pc EXCEPT ![t] = "locked"]
    /\ UNCHANGED <<call, nrun, proc, result, foreign, split, pureVars>>

\* the bookkeeping of Start: the process count of the call, and whether another
\* caller's process came between two processes of one call
StartNotes(t, found) ==
    /\ nrun' = [nrun EXCEPT ![t] = nrun[t] + 1]
    /\ split' = [split EXCEPT ![t] = split[t] \/ foreign[t]]
    /\ foreign' = [u \in Threads |->
                     IF u = t THEN FALSE
                     ELSE foreign[u] \/ (found /\ pc[u] \notin {"idle", "done"}
                                                /\ nrun[u] >= 1)]

\* Start as it would be if the lock covered only the launch of the process
Start_Unlocked(t) ==
    /\ pc[t] = "locked"
    /\ \E found \in BOOLEAN :
        /\ StartNotes(t, found)
        /\ IF found
           THEN /\ pc' = [pc EXCEPT ![t] = "running"]
                /\ proc' = proc
                /\ mutex' = 0
           ELSE /\ pc' = [pc EXCEPT ![t] = "finally"]
                /\ proc' = [proc EXCEPT ![t] = [NoProc EXCEPT !.exit = "enoent"]]
                /\ mutex' = mutex
    /\ UNCHANGED <<call, result, pureVars>>

\* _run: subprocess.run starts calibredb, or finds no executable
Start(t) ==
    /\ pc[t] = "locked"
    /\ \E found \in BOOLEAN :
        /\ StartNotes(t, found)
        /\ IF found
           THEN /\ pc' = [pc EXCEPT ![t] = "running"]
                /\ proc' = proc
           ELSE /\ pc' = [pc EXCEPT ![t] = "finally"]
                /\ proc' = [proc EXCEPT ![t] = [NoProc EXCEPT !.exit = "enoent"]]
    /\ UNCHANGED <<mutex, call, result, pureVars>>

\* _run: calibredb exits; subprocess.run returns or raises CalledProcessError
Exit(t) ==
    /\ pc[t] = "running"
    /\ \E exit \in {"zero", "nonzero"} :
       \E o \in Outputs(Subcommand(call[t], nrun[t])) :
       \E e \in Errors(Subcommand(call[t], nrun[t]), exit) :
          proc' = [proc EXCEPT ![t] = [exit |-> exit, out |-> o, err |-> e]]
    /\ pc' = [pc EXCEPT ![t] = "finally"]
    /\ UNCHANGED <<mutex, call, nrun, result, foreign, split, pureVars>>

\* Release as it would be with the release after the try statement instead of in
\* its finally clause: an exception leaves _run with the mutex held
Release_NoFinally(t) ==
    /\ pc[t] = "finally"
    /\ mutex' = IF run_result(proc[t]) = "ok" THEN 0 ELSE mutex
    /\ LET r == After(call[t], nrun[t], proc[t])
       IN  /\ pc' = [pc EXCEPT ![t] = IF r.more THEN "acquire" ELSE "done"]
           /\ result' = [result EXCEPT ![t] = r.result]
    /\ proc' = [proc EXCEPT ![t] = NoProc]
    /\ UNCHANGED <<call, nrun, foreign, split, pureVars>>

\* Release as it would be if _run tried again after a failed process
Release_Retry(t) ==
    /\ pc[t] = "finally"
    /\ mutex' = 0
    /\ LET r == After(call[t], nrun[t], proc[t])
       IN  IF run_result(proc[t]) # "ok" /\ nrun[t] < 2
           THEN pc' = [pc EXCEPT ![t] = "acquire"] /\ result' = result
           ELSE /\ pc' = [pc EXCEPT ![t] = IF r.more THEN "acquire" ELSE "done"]
                /\ result' = [result EXCEPT ![t] = r.result]
    /\ proc' = [proc EXCEPT ![t] = NoProc]
    /\ UNCHANGED <<call, nrun, foreign, split, pureVars>>

\* _run: the finally clause releases the mutex; _run returns or raises and the
\* method runs on to its next _run or to its end
Release(t) ==
    /\ pc[t] = "finally"
    /\ mutex' = 0
    /\ LET r == After(call[t], nrun[t], proc[t])
       IN  /\ pc' = [pc EXCEPT ![t] = IF r.more THEN "acquire" ELSE "done"]
           /\ result' = [result EXCEPT ![t] = r.result]
    /\ proc' = [proc EXCEPT ![t] = NoProc]
    /\ UNCHANGED <<call, nrun, foreign, split, pureVars>>

\* the caller has its result and may call again
Return(t) ==
    /\ pc[t] = "done"
    /\ pc' = [pc EXCEPT ![t] = "idle"]
    /\ call' = [call EXCEPT ![t] = NoCall]
    /\ nrun' = [nrun EXCEPT ![t] = 0]
    /\ result' = [result EXCEPT ![t] = Pending]
    /\ foreign' = [foreign EXCEPT ![t] = FALSE]
    /\ split' = [split EXCEPT ![t] = FALSE]
    /\ UNCHANGED <<mutex, proc, pureVars>>

Next ==
    \E t \in Threads :
        \/ \E c \in ConcCalls : Invoke(t, c)
        \/ Acquire(t)
        \/ Start(t)
        \/ Exit(t)
        \/ Release(t)
        \/ Return(t)

Spec == Init /\ [][Next]_vars

NextSeq ==
    \/ \E c \in AllCalls : Invoke(1, c)
    \/ Acquire(1)
    \/ Start(1)
    \/ Exit(1)
    \/ Release(1)
    \/ Return(1)

SpecSeq == Init /\ [][NextSeq]_vars

\* ------------------------------------------------- SpecAdd: calibredb add
RECURSIVE SeqsUpTo(_, _)
\* every sequence over alphabet of length at most n
SeqsUpTo(alphabet, n) ==
    IF n = 0 THEN {<< >>}
    ELSE LET shorter == SeqsUpTo(alphabet, n - 1)
         IN  shorter \cup {Append(q, a) : q \in shorter, a \in alphabet}

\* stdout of calibredb add: a report line and what follows it, or something else
AddOuts ==
    {<<h>> \o tl : h \in {AddedHdr, MergedHdr},
                   tl \in SeqsUpTo(Digits \cup {",", " "}, MaxTail)}
    \cup {<< >>, <<"x", AddedHdr, "7">>}

AddErrs == {<< >>, <<"warning">>, <<IgnoredHdr>>, <<"x", IgnoredHdr>>}

\* ------------------------------------------- SpecFlags: command builders
\* ADD_FLAGS in the order of its keys
ADD_FIELDS == <<"authors", "cover", "identifiers", "isbn", "languages", "series",
                "series_index", "tags", "title">>

ADD_FLAGS(field) ==
    CASE field = "identifiers" -> "identifier"
      [] field = "series_index" -> "series-index"
      [] OTHER -> field

UPDATE_FLAGS == <<"author_sort", "authors", "comments", "id", "identifiers",
                  "languages", "pubdate", "publisher", "rating", "series",
                  "series_index", "size", "tags", "timestamp", "title">>

Range(q) == {q[i] : i \in 1..Len(q)}
Fields == Range(ADD_FIELDS) \cup Range(UPDATE_FLAGS)

\* Python values of a Book attribute: None, a str, a list of str, a dict, a number
Val(k, s, l, d, n) == [k |-> k, s |-> s, l |-> l, d |-> d, n |-> n]
None == Val("none", << >>, << >>, << >>, 0)
Str(s) == Val("str", s, << >>, << >>, 0)
List(l) == Val("list", << >>, l, << >>, 0)
Dict(d) == Val("dict", << >>, << >>, d, 0)
Num(n) == Val("num", << >>, << >>, << >>, n)

\* the truth value of a Python value ("if value:")
Truthy(v) ==
    CASE v.k = "str" -> v.s # << >>
      [] v.k = "list" -> v.l # << >>
      [] v.k = "dict" -> v.d # << >>
      [] v.k = "num" -> v.n # 0
      [] OTHER -> FALSE

RECURSIVE lstrip(_)
lstrip(s) == IF s # << >> /\ Head(s) = " " THEN lstrip(Tail(s)) ELSE s

RECURSIVE rstrip(_)
rstrip(s) ==
    IF s # << >> /\ s[Len(s)] = " " THEN rstrip(SubSeq(s, 1, Len(s) - 1)) ELSE s

\* str.strip()
strip(s) == rstrip(lstrip(s))

RECURSIVE str_join(_, _)
\* sep.join(lst)
str_join(lst, sep) ==
    IF lst = << >> THEN << >>
    ELSE IF Len(lst) = 1 THEN lst[1]
    ELSE lst[1] \o sep \o str_join(Tail(lst), sep)

join_list(lst, sep) == str_join([i \in 1..Len(lst) |-> strip(lst[i])], sep)

\* quote(s): shlex.quote of the stripped text when it holds a space
quote(s) ==
    IF " " \in Range(strip(s)) THEN <<"'">> \o strip(s) \o <<"'">> ELSE strip(s)

\* str(value) of a value that is no list
to_str(v) == IF v.k = "num" THEN <<ToString(v.n)>> ELSE v.s

Flag(name, arg) == [flag |-> name, arg |-> arg]

\* one --identifier flag for each entry of the mapping
IdentifierFlags(flag_name, d) ==
    [i \in 1..Len(d) |-> Flag("--" \o flag_name, quote(d[i][1] \o <<":">> \o d[i][2]))]

RECURSIVE add_flags_from(_, _, _)
\* _handle_add_flags: the loop over ADD_FLAGS.keys() from its i-th key on
add_flags_from(i, b, cmd) ==
    IF i > Len(ADD_FIELDS) THEN cmd
    ELSE LET flag == ADD_FIELDS[i]
             value == b[flag]
         IN  IF ~Truthy(value) THEN add_flags_from(i + 1, b, cmd)
             ELSE IF flag = "identifiers"
             THEN cmd \o IdentifierFlags(ADD_FLAGS(flag), value.d)
             ELSE IF value.k = "list"
             THEN add_flags_from(i + 1, b,
                    Append(cmd, Flag("--" \o ADD_FLAGS(flag),
                        quote(join_list(value.l,
                            IF flag = "authors" THEN <<" ", "&", " ">> ELSE <<",">>)))))
             ELSE add_flags_from(i + 1, b,
                    Append(cmd, Flag("--" \o ADD_FLAGS(flag), quote(to_str(value)))))

\* _handle_add_flags(cmd, book): the flags appended to cmd
handle_add_flags(bk) ==
    IF ~bk.some THEN << >> ELSE add_flags_from(1, bk.f, << >>)

RECURSIVE update_flags_from(_, _, _)
\* _handle_update_flags: the loop over UPDATE_FLAGS from its i-th field on
update_flags_from(i, b, cmd) ==
    IF i > Len(UPDATE_FLAGS) THEN cmd
    ELSE LET field == UPDATE_FLAGS[i]
             value == b[field]
         IN  IF ~Truthy(value) THEN update_flags_from(i + 1, b, cmd)
             ELSE IF field = "identifiers"
             THEN Append(cmd, Flag("--field",
                    <<field, ":">> \o quote(join_list(
                        [k \in 1..Len(value.d) |-> value.d[k][1] \o <<":">> \o value.d[k][2]],
                        <<",">>))))
             ELSE IF value.k = "list"
             THEN update_flags_from(i + 1, b,
                    Append(cmd, Flag("--field",
                        quote(<<field, ":">> \o join_list(value.l,
                            IF field = "authors" THEN <<" ", "&", " ">> ELSE <<",">>)))))
             ELSE update_flags_from(i + 1, b,
                    Append(cmd, Flag("--field", quote(<<field, ":">> \o to_str(value)))))

\* _handle_update_flags(cmd, book): the flags appended to cmd
handle_update_flags(bk) ==
    IF ~bk.some THEN << >> ELSE update_flags_from(1, bk.f, << >>)

\* sample attribute values, two for each field (v = 1, 2)
Sample(field, v) ==
    CASE field = "authors" ->
            IF v = 1 THEN List(<< <<"A", " ", "B">>, <<"C">> >>) ELSE List(<< <<"C">> >>)
      [] field = "identifiers" ->
            IF v = 1 THEN Dict(<< << <<"isbn">>, <<"123">> >>, << <<"x">>, <<"y">> >> >>)
            ELSE Dict(<< << <<"isbn">>, <<"123">> >> >>)
      [] field \in {"languages", "tags"} ->
            IF v = 1 THEN List(<< <<"a">>, <<" ", "b">> >>) ELSE List(<< >>)
      [] field \in {"series_index", "id", "rating", "size"} ->
            IF v = 1 THEN Num(1) ELSE Num(0)
      [] OTHER -> IF v = 1 THEN Str(<<"T", " ", "U">>) ELSE Str(<<"T">>)

NoBook == [some |-> FALSE, f |-> [x \in Fields |-> None]]

\* records with at most MaxPopulated attributes set
Books ==
    {[some |-> TRUE, f |-> [x \in Fields |-> IF x \in P THEN Sample(x, v) ELSE None]] :
        P \in {Q \in SUBSET Fields : Cardinality(Q) <= MaxPopulated}, v \in {1, 2}}

Unbuilt == [done |-> FALSE, cmd |-> << >>]

InitFlags ==
    /\ InitThreads
    /\ add_out = << >> /\ add_err = << >> /\ added = Pending
    /\ book \in Books \cup {NoBook}
    /\ addcmd = Unbuilt
    /\ updcmd = Unbuilt
    /\ automerge = "ignore"

\* _handle_add_flags on book
BuildAdd ==
    /\ ~addcmd.done
    /\ addcmd' = [done |-> TRUE, cmd |-> handle_add_flags(book)]
    /\ UNCHANGED <<mutex, pc, call, nrun, proc, result, foreign, split,
                   add_out, add_err, added, book, updcmd, automerge>>

\* _handle_update_flags on book
BuildUpdate ==
    /\ ~updcmd.done
    /\ updcmd' = [done |-> TRUE, cmd |-> handle_update_flags(book)]
    /\ UNCHANGED <<mutex, pc, call, nrun, proc, result, foreign, split,
                   add_out, add_err, added, book, addcmd, automerge>>

NextFlags == BuildAdd \/ BuildUpdate

SpecFlags == InitFlags /\ [][NextFlags]_vars

\* ------------------------------------------------------ SpecAdd: _run_add
AUTOMERGE_VALID_VALUES == {"overwrite", "new_record", "ignore"}

\* the automerge arguments tried: the valid values, an unknown one, an empty one
AutomergeInputs == AUTOMERGE_VALID_VALUES \cup {"bogus", ""}

\* automerge_flag as it would be if the argument were passed on unchecked
automerge_flag_Unchecked(a) == <<Flag("--automerge", <<a>>)>>

\* _run_add: cmd += " --automerge=..." with the argument, or ignore when it is
\* no valid value
automerge_flag(a) ==
    IF a \in AUTOMERGE_VALID_VALUES THEN <<Flag("--automerge", <<a>>)>>
    ELSE <<Flag("--automerge", <<"ignore">>)>>

\* the flags of the command _run_add hands to _run
run_add_command(a, bk) == automerge_flag(a) \o handle_add_flags(bk)

\* the records _run_add is tried with: none, and one with a title
AddBooks ==
    {NoBook,
     [some |-> TRUE, f |-> [x \in Fields |-> IF x = "title" THEN Sample(x, 1) ELSE None]]}

InitAdd ==
    /\ InitThreads
    /\ add_out \in AddOuts
    /\ add_err \in AddErrs
    /\ added = Pending
    /\ automerge \in AutomergeInputs
    /\ book \in AddBooks
    /\ addcmd = Unbuilt
    /\ updcmd = Unbuilt

\* _run_add, with _run returning add_out and add_err from a zero exit
RunAdd ==
    /\ added = Pending
    /\ addcmd' = [done |-> TRUE, cmd |-> run_add_command(automerge, book)]
    /\ added' = classify_add(add_out, add_err)
    /\ UNCHANGED <<mutex, pc, call, nrun, proc, result, foreign, split,
                   add_out, add_err, book, updcmd, automerge>>

NextAdd == RunAdd

SpecAdd == InitAdd /\ [][NextAdd]_vars

\* ------------------------------------------------------------------ claims
InRun(t) == pc[t] \in {"locked", "running", "finally"}

\* C1: external invocations never overlap: at most one process started by the
\* wrapper is in progress, and it runs only while its caller holds the mutex.
C1_NoOverlap ==
    /\ Cardinality({t \in Threads : pc[t] = "running"}) <= 1
    /\ \A t \in Threads : pc[t] = "running" => mutex = t

\* a process is running while another caller waits for the mutex
C1_Witness ==
    \E t, u \in Threads : t # u /\ pc[t] = "running" /\ pc[u] = "acquire"

\* C2: the mutex is released on every exit path of _run: a caller outside _run
\* (returned or raised) never holds it, so a free mutex is there for the next _run.
C2_Released ==
    /\ \A t \in Threads : ~InRun(t) => mutex # t
    /\ (\A t \in Threads : ~InRun(t)) => mutex = 0

\* one caller's _run raised (no executable) and another caller then got the mutex
C2_Witness ==
    \E t, u \in Threads :
        /\ t # u
        /\ pc[t] = "done" /\ result[t].kind = "FileNotFoundError" /\ nrun[t] >= 1
        /\ pc[u] = "locked" /\ mutex = u

\* the ids a call addresses
AddressedIds(c) ==
    IF c.name = "remove" THEN {c.ids[k] : k \in 1..Len(c.ids)}
    ELSE IF c.name \in {"get_book", "add_format", "remove_format", "show_metadata",
                        "set_metadata"}
    THEN {c.id}
    ELSE {}

Rejected(t) == pc[t] = "done" /\ result[t].kind = "ValueError" /\ nrun[t] = 0

\* C3: every id-addressed operation (remove included, for each id of its list)
\* rejects an id <= 0 with an input error before any external invocation.
C3_RejectsNonPositive ==
    \A t \in Threads :
        (\E i \in AddressedIds(call[t]) : i <= 0) => Rejected(t)

\* C4: no orchestrator call is split: no other caller's invocation is executed
\* between two invocations of one call.
C4_NeverSplit == \A t \in Threads : ~split[t]

\* C4 as amended: the lock is held per external invocation. No invocation is
\* interleaved with another, and a call is split only between set_metadata's
\* existence query and its update.
C4_SplitOnlyBetweenRuns ==
    \A t \in Threads :
        /\ split[t] => call[t].name = "set_metadata" /\ nrun[t] = 2
        /\ pc[t] \in {"running", "finally"} => ~foreign[t]

\* set_metadata runs its update after another caller's process ran in between
C4_Witness ==
    \E t \in Threads :
        split[t] /\ call[t].name = "set_metadata" /\ pc[t] = "running"

\* C5: set_metadata with neither a record nor a metadata path rejects with an
\* input error before any external invocation is issued.
C5_RejectsBeforeRun ==
    \A t \in Threads :
        (call[t].name = "set_metadata" /\ ~call[t].book /\ call[t].mpath = "none")
            => Rejected(t)

\* the report line that classify_add reads ids from, and the group it captured
Matched(o) == BOOK_MERGED_REGEX(o) # << >> \/ BOOK_ADDED_REGEX(o) # << >>
Group(o) == IF BOOK_MERGED_REGEX(o) # << >> THEN BOOK_MERGED_REGEX(o) ELSE BOOK_ADDED_REGEX(o)

\* C6: classification order is conflict (stderr), merged, added, first match wins:
\* when stderr matches the "already exist" pattern _run_add raises the
\* already-exists error whatever stdout holds, and returns no id list.
C6_ConflictFirst ==
    (added # Pending /\ BOOK_IGNORED_REGEX(add_err))
        => added = [kind |-> "ExistingItemError", ids |-> NoIds]

\* stderr reports a conflict while stdout matches the added or merged pattern
C6_Witness ==
    /\ added.kind = "ExistingItemError"
    /\ BOOK_IGNORED_REGEX(add_err)
    /\ Matched(add_out)
    /\ \E k \in 1..Len(add_out) : add_out[k] \in Digits

RECURSIVE PrintedIds(_)
\* the ids of a printed list: its maximal runs of digits, in order
PrintedIds(s) ==
    IF s = << >> THEN << >>
    ELSE IF Head(s) \in Digits
    THEN LET run == SpanOf(s, Digits)
         IN  <<run>> \o PrintedIds(SubSeq(s, Len(run) + 1, Len(s)))
    ELSE PrintedIds(Tail(s))

\* a list as calibredb prints it: one id or more, joined with ", "
WellFormed(s) == s # << >> /\ s = str_join(PrintedIds(s), <<",", " ">>)

\* C7: when stdout matches the added or merged pattern the outcome carries the
\* full id list: one element for each id printed, in order ("7, 8" gives 7 and 8).
C7_FullIdList ==
    (/\ added # Pending
     /\ ~BOOK_IGNORED_REGEX(add_err)
     /\ Len(add_out) >= 1 /\ add_out[1] \in {AddedHdr, MergedHdr}
     /\ WellFormed(Tail(add_out)))
        => added = [kind |-> "return", ids |-> PrintedIds(Tail(add_out))]

\* C8: after a structural match an id list without ids is fatal: _run_add raises
\* and never returns a result that holds no book id.
C8_EmptyListIsFatal ==
    (/\ added # Pending
     /\ ~BOOK_IGNORED_REGEX(add_err)
     /\ Matched(add_out)
     /\ PrintedIds(Group(add_out)) = << >>)
        => added.kind = "Exception"

AddFlagOf(field) == "--" \o ADD_FLAGS(field)
FlagsIn(cmd) == {cmd[k].flag : k \in 1..Len(cmd)}
TableIndex(flag) == CHOOSE i \in 1..Len(ADD_FIELDS) : AddFlagOf(ADD_FIELDS[i]) = flag

\* C9: the add builder appends a flag for exactly the populated fields of the
\* record, in the order of the flag table, and nothing when there is no record.
C9_ExactlyPopulated ==
    addcmd.done =>
        IF ~book.some THEN addcmd.cmd = << >>
        ELSE /\ \A x \in Range(ADD_FIELDS) :
                    Truthy(book.f[x]) <=> AddFlagOf(x) \in FlagsIn(addcmd.cmd)
             /\ \A j, k \in 1..Len(addcmd.cmd) :
                    j < k => TableIndex(addcmd.cmd[j].flag) <= TableIndex(addcmd.cmd[k].flag)

\* the identifiers mapping as key:value entries joined with ","
JoinedIdentifiers(d) ==
    str_join([k \in 1..Len(d) |-> d[k][1] \o <<":">> \o d[k][2]], <<",">>)

\* C10: a populated identifiers mapping is rendered as exactly one flag, whose
\* value is every key:value entry joined with ",", in the add builder and in the
\* update builder, and it is the last flag rendered.
C10_IdentifiersOneFlag ==
    (book # << >> /\ book.some /\ Truthy(book.f["identifiers"])) =>
        /\ addcmd.done =>
            /\ Cardinality({k \in 1..Len(addcmd.cmd) :
                              addcmd.cmd[k].flag = "--identifier"}) = 1
            /\ addcmd.cmd[Len(addcmd.cmd)] =
                 Flag("--identifier", JoinedIdentifiers(book.f["identifiers"].d))
        /\ updcmd.done =>
            /\ Cardinality({k \in 1..Len(updcmd.cmd) :
                              updcmd.cmd[k].arg[1] = "identifiers"}) = 1
            /\ updcmd.cmd[Len(updcmd.cmd)] =
                 Flag("--field", <<"identifiers", ":">>
                                 \o JoinedIdentifiers(book.f["identifiers"].d))

\* C11: an automerge value outside the valid ones is never rejected: _run_add goes
\* on to its invocation with exactly one --automerge flag, whose value is the
\* argument when it is valid and ignore otherwise.
C11_AutomergeNormalized ==
    added # Pending =>
        /\ addcmd.done
        /\ Cardinality({k \in 1..Len(addcmd.cmd) :
                          addcmd.cmd[k].flag = "--automerge"}) = 1
        /\ addcmd.cmd[1] =
             Flag("--automerge",
                  <<IF automerge \in AUTOMERGE_VALID_VALUES THEN automerge ELSE "ignore">>)

\* _run_add ran with an unknown automerge value and its command says ignore
C11_Witness ==
    /\ added # Pending
    /\ automerge = "bogus"
    /\ addcmd.done /\ addcmd.cmd[1] = Flag("--automerge", <<"ignore">>)

\* C12: _run maps each failure of the process to exactly one error: no executable
\* gives FileNotFoundError; a non-zero exit whose stderr matches the "another
\* calibre program is running" pattern gives CalibreConcurrencyError; any other
\* non-zero exit gives CalibreRuntimeError; a zero exit raises nothing from _run,
\* whatever stderr holds.
C12_RunErrors ==
    [][\A t \in Threads :
          (pc[t] = "finally" /\ pc'[t] # "finally") =>
              /\ proc[t].exit = "enoent" =>
                    pc'[t] = "done" /\ result'[t] = Result("FileNotFoundError")
              /\ (proc[t].exit = "nonzero" /\ CONCURRENCY_ERR_REGEX(proc[t].err)) =>
                    pc'[t] = "done" /\ result'[t] = Result("CalibreConcurrencyError")
              /\ (proc[t].exit = "nonzero" /\ ~CONCURRENCY_ERR_REGEX(proc[t].err)) =>
                    pc'[t] = "done" /\ result'[t] = Result("CalibreRuntimeError")
              /\ proc[t].exit = "zero" =>
                    /\ result'[t].kind \notin {"CalibreConcurrencyError",
                                               "CalibreRuntimeError"}
                    /\ result'[t].kind = "FileNotFoundError" =>
                          call[t].name = "set_metadata" /\ call[t].mpath = "missing"
      ]_vars

\* a call ended with the concurrency error of its one process
C12_Witness ==
    \E t \in Threads :
        pc[t] = "done" /\ result[t].kind = "CalibreConcurrencyError" /\ nrun[t] = 1

\* the process of a list query printed exactly one record
OneRecord(p) == p.exit = "zero" /\ json_loads(p.out) = [ok |-> TRUE, n |-> 1]

\* C13: set_metadata issues its update only after its own existence query returned
\* exactly one record; when the query yields no record it returns -1 without
\* raising and without an update; it returns the id only after the update ran.
C13_UpdateAfterQuery ==
    [][\A t \in Threads :
          (call[t].name = "set_metadata" /\ pc[t] = "finally" /\ pc'[t] # "finally") =>
              /\ nrun[t] = 1 =>
                    /\ pc'[t] = "acquire" => OneRecord(proc[t])
                    /\ (proc[t].exit = "zero" /\ ~OneRecord(proc[t])) =>
                          /\ pc'[t] = "done"
                          /\ result'[t] = Result("return -1")
                          /\ nrun'[t] = 1
                    /\ result'[t].kind # "return"
              /\ nrun[t] = 2 =>
                    /\ pc'[t] = "done"
                    /\ result'[t].kind = "return" <=> proc[t].exit = "zero"
      ]_vars

\* set_metadata returned the id after its query and its update
C13_Witness ==
    \E t \in Threads :
        /\ call[t].name = "set_metadata"
        /\ pc[t] = "done" /\ result[t].kind = "return" /\ nrun[t] = 2

\* the most processes one call of a method starts
MaxRuns(c) == IF c.name = "set_metadata" THEN 2 ELSE 1

\* C14: the core never retries: after a failed invocation the call starts no other
\* one and ends with the error; a call makes at most one invocation, set_metadata
\* at most two.
C14_NoRetry ==
    /\ [](\A t \in Threads : nrun[t] <= MaxRuns(call[t]))
    /\ [][\A t \in Threads :
             (pc[t] = "finally" /\ pc'[t] # "finally" /\ proc[t].exit # "zero") =>
                 /\ pc'[t] = "done"
                 /\ nrun'[t] = nrun[t]
                 /\ result'[t].kind \in {"FileNotFoundError", "CalibreConcurrencyError",
                                         "CalibreRuntimeError"}
         ]_vars

\* set_metadata's update failed after its query succeeded, and the call ended
C14_Witness ==
    \E t \in Threads :
        /\ call[t].name = "set_metadata"
        /\ pc[t] = "done" /\ result[t].kind = "CalibreRuntimeError" /\ nrun[t] = 2

====
